---- MODULE Spec2Model ----
(***************************************************************************)
(* A model of the terminfo decoding engine: the source parser (Parse and   *)
(* its addCap closure), the use resolver (resolveUses, findTerminfo) and   *)
(* the binary reader (header, reader, readerPool).  Bytes and characters   *)
(* are integers 0..255, strings are sequences of bytes, Go maps are        *)
(* functions with a finite domain.                                         *)
(***************************************************************************)
EXTENDS Integers, Sequences, FiniteSets, TLC

VARIABLES
    \* ---- Parse (src/parse.go) ----
    input,              \* strings.Split(src, "\n") when the text is fixed up front
    ln,                 \* number of lines the range loop has consumed
    tis,                \* the result slice
    ti,                 \* the entry being filled, Nil before the first header
    capName,            \* pending capability name
    esc,                \* state of the character machine
    buf,                \* the accumulator
    extBoolIdx, extNumIdx, extStringIdx,
    extBoolNameCaps, extNumNameCaps, extStringNameCaps,
    s,                  \* the trimmed continuation line being scanned
    i,                  \* index of the character loop (0-based, as in the code)
    pc,                 \* where Parse is: "lines", "chars", "resolve", "done",
                        \* "panic" (a Go panic), "overflow" (unbounded recursion)
    ri,                 \* index of the resolve loop over tis (0-based)
    parsed,             \* the entries as they were when the line loop ended
    tok,                \* the tokens a fixed text was written from
    file,               \* the bytes of the compiled file being decoded
    r,                  \* the reader in use: pos, ppos, buf, ti, h
    err,                \* what read returned: "nil", "SmallFile", "BadMagic",
                        \* "BadString", or "panic" (a Go run-time panic)
    dpc,                \* where the decoder is: "idle", "readHeader",
                        \* "readNames", "readBools", "readNumbers",
                        \* "readStrings", "return"
    readerPool,         \* the readers put back with free()
    tim,                \* the registry, a map from alias to model
    history             \* the models passed to Set so far, in order

pvars == <<input, ln, tis, ti, capName, esc, buf, extBoolIdx, extNumIdx,
           extStringIdx, extBoolNameCaps, extNumNameCaps, extStringNameCaps,
           s, i, pc, ri, parsed, tok>>

dvars == <<file, r, err, dpc, readerPool>>

rvars == <<tim, history>>

vars == <<pvars, dvars, rvars>>

-----------------------------------------------------------------------------
(* Characters.                                                             *)

Ch == [tab |-> 9, nl |-> 10, vt |-> 11, ff |-> 12, cr |-> 13, sp |-> 32,
       hash |-> 35, comma |-> 44, d0 |-> 48, d7 |-> 55, d9 |-> 57, eq |-> 61,
       E |-> 69, bsl |-> 92, caret |-> 94, a |-> 97, b |-> 98, e |-> 101,
       f |-> 102, l |-> 108, n |-> 110, r |-> 114, s |-> 115, t |-> 116,
       x |-> 120, bar |-> 124, esc |-> 27, bs |-> 8]

\* The iota block of the state constants.
GROUND == 0
INT    == 1
NONE   == 2
CTRL   == 3
ESC    == 4

\* Map helpers: a Go map is a function; m[k] = v is Put(m, k, v).
Has(m, k) == k \in DOMAIN m
Put(m, k, v) == [y \in DOMAIN m \cup {k} |-> IF y = k THEN v ELSE m[y]]
EmptyMap == <<>>

\* The text "use".
UseName == <<117, 115, 101>>

\* The standard catalogs (name -> index), reduced to a few short names:
\* am, bw / cols, it / bold, el.
boolNameCaps == (<<97, 109>> :> 1) @@ (<<98, 119>> :> 0)
numNameCaps == (<<99, 111, 108, 115>> :> 0) @@ (<<105, 116>> :> 1)
stringNameCaps == (<<98, 111, 108, 100>> :> 27) @@ (<<101, 108>> :> 6)

-----------------------------------------------------------------------------
(* Library functions used by Parse.                                        *)

\* unicode.IsSpace on a byte widened to a rune.
IsSpace(c) == c \in {9, 10, 11, 12, 13, 32, 133, 160}

\* The whitespace strings.TrimSpace strips from a string of single bytes.
IsTrimSpace(c) == c \in {9, 10, 11, 12, 13, 32}

RECURSIVE TrimLeft(_)
TrimLeft(str) ==
    IF str # <<>> /\ IsTrimSpace(Head(str)) THEN TrimLeft(Tail(str)) ELSE str

RECURSIVE TrimRight(_)
TrimRight(str) ==
    IF str # <<>> /\ IsTrimSpace(str[Len(str)])
    THEN TrimRight(SubSeq(str, 1, Len(str) - 1))
    ELSE str

TrimSpace(str) == TrimRight(TrimLeft(str))

\* strings.Split(str, sep) for a one-byte separator.
RECURSIVE SplitAcc(_, _, _, _)
SplitAcc(str, sep, cur, acc) ==
    IF str = <<>> THEN Append(acc, cur)
    ELSE IF Head(str) = sep THEN SplitAcc(Tail(str), sep, <<>>, Append(acc, cur))
    ELSE SplitAcc(Tail(str), sep, Append(cur, Head(str)), acc)

Split(str, sep) == SplitAcc(str, sep, <<>>, <<>>)

\* The value of one digit in the given base, -1 when it is no digit of it.
DigitVal(c, base) ==
    LET v == IF c >= 48 /\ c <= 57 THEN c - 48
             ELSE IF c >= 97 /\ c <= 122 THEN c - 97 + 10
             ELSE IF c >= 65 /\ c <= 90 THEN c - 65 + 10
             ELSE -1
    IN  IF v >= 0 /\ v < base THEN v ELSE -1

\* strconv.ParseUint(str, base, 32) for base 10 or 16: [n, ok].  A syntax
\* error returns 0.  The range error (a value above 2^32 - 1) needs a literal
\* of at least nine hex or ten decimal digits; the literals of this model are
\* shorter, so that branch is left out.
RECURSIVE ParseDigits(_, _, _)
ParseDigits(str, base, acc) ==
    IF str = <<>> THEN [n |-> acc, ok |-> TRUE]
    ELSE IF DigitVal(Head(str), base) < 0 THEN [n |-> 0, ok |-> FALSE]
    ELSE ParseDigits(Tail(str), base, acc * base + DigitVal(Head(str), base))

ParseUint(str, base) ==
    IF str = <<>> THEN [n |-> 0, ok |-> FALSE] ELSE ParseDigits(str, base, 0)

HasPrefix0x(str) == Len(str) >= 2 /\ str[1] = 48 /\ str[2] = 120

-----------------------------------------------------------------------------
(* The capability model built by Parse.                                    *)

Nil == [nil |-> TRUE]

NewTerminfo(names) ==
    [Names |-> names, Bools |-> EmptyMap, Nums |-> EmptyMap, Strings |-> EmptyMap,
     ExtBools |-> EmptyMap, ExtNums |-> EmptyMap, ExtStrings |-> EmptyMap,
     ExtBoolNames |-> EmptyMap, ExtNumNames |-> EmptyMap,
     ExtStringNames |-> EmptyMap, Uses |-> <<>>]

\* The locals of Parse that addCap and the character loop read and write.
Locals ==
    [ti |-> ti, capName |-> capName, esc |-> esc, buf |-> buf,
     extBoolIdx |-> extBoolIdx, extNumIdx |-> extNumIdx,
     extStringIdx |-> extStringIdx, extBoolNameCaps |-> extBoolNameCaps,
     extNumNameCaps |-> extNumNameCaps, extStringNameCaps |-> extStringNameCaps,
     panic |-> FALSE]

-----------------------------------------------------------------------------
(* addCap: the closure of Parse that records one finished capability.      *)

\* A variant of case "bool" that numbers the extended names within the
\* current entry. C3 tells it from addCapBool.
addCapBoolPerEntry(p) ==
    LET name == p.buf
        mine == {k \in DOMAIN p.ti.ExtBoolNames : p.ti.ExtBoolNames[k] = name}
        next == Cardinality(DOMAIN p.ti.ExtBoolNames)
    IN  IF Has(boolNameCaps, name)
        THEN [p EXCEPT !.ti.Bools = Put(@, boolNameCaps[name], TRUE)]
        ELSE IF mine # {}
        THEN [p EXCEPT !.ti.ExtBools = Put(@, CHOOSE k \in mine : TRUE, TRUE)]
        ELSE [p EXCEPT !.extBoolNameCaps = Put(@, name, next),
                       !.ti.ExtBoolNames = Put(@, next, name),
                       !.ti.ExtBools = Put(@, next, TRUE),
                       !.extBoolIdx = @ + 1]

\* case "bool"
addCapBool(p) ==
    LET name == p.buf
    IN  IF Has(boolNameCaps, name)
        THEN [p EXCEPT !.ti.Bools = Put(@, boolNameCaps[name], TRUE)]
        ELSE IF Has(p.extBoolNameCaps, name)
        THEN LET cap == p.extBoolNameCaps[name]
             IN  [p EXCEPT !.ti.ExtBoolNames = Put(@, cap, name),
                           !.ti.ExtBools = Put(@, cap, TRUE)]
        ELSE [p EXCEPT !.extBoolNameCaps = Put(@, name, p.extBoolIdx),
                       !.ti.ExtBoolNames = Put(@, p.extBoolIdx, name),
                       !.ti.ExtBools = Put(@, p.extBoolIdx, TRUE),
                       !.extBoolIdx = @ + 1]

\* A variant of case "num" without its capName = "". C17 tells it from
\* addCapNum.
addCapNumKeepName(p) ==
    LET hex   == HasPrefix0x(p.buf)
        value == IF hex THEN SubSeq(p.buf, 3, Len(p.buf)) ELSE p.buf
        n     == ParseUint(value, IF hex THEN 16 ELSE 10).n
    IN  IF Has(numNameCaps, p.capName)
        THEN [p EXCEPT !.ti.Nums = Put(@, numNameCaps[p.capName], n)]
        ELSE IF Has(p.extNumNameCaps, p.capName)
        THEN LET cap == p.extNumNameCaps[p.capName]
             IN  [p EXCEPT !.ti.ExtNumNames = Put(@, cap, p.capName),
                           !.ti.ExtNums = Put(@, cap, n)]
        ELSE [p EXCEPT !.extNumNameCaps = Put(@, p.capName, p.extNumIdx),
                       !.ti.ExtNumNames = Put(@, p.extNumIdx, p.capName),
                       !.ti.ExtNums = Put(@, p.extNumIdx, n),
                       !.extNumIdx = @ + 1]

\* case "num": the literal is parsed, a failure is only logged, and the
\* returned n is stored either way.
addCapNum(p) ==
    LET hex   == HasPrefix0x(p.buf)
        value == IF hex THEN SubSeq(p.buf, 3, Len(p.buf)) ELSE p.buf
        n     == ParseUint(value, IF hex THEN 16 ELSE 10).n
        q     == IF Has(numNameCaps, p.capName)
                 THEN [p EXCEPT !.ti.Nums = Put(@, numNameCaps[p.capName], n)]
                 ELSE IF Has(p.extNumNameCaps, p.capName)
                 THEN LET cap == p.extNumNameCaps[p.capName]
                      IN  [p EXCEPT !.ti.ExtNumNames = Put(@, cap, p.capName),
                                    !.ti.ExtNums = Put(@, cap, n)]
                 ELSE [p EXCEPT !.extNumNameCaps = Put(@, p.capName, p.extNumIdx),
                                !.ti.ExtNumNames = Put(@, p.extNumIdx, p.capName),
                                !.ti.ExtNums = Put(@, p.extNumIdx, n),
                                !.extNumIdx = @ + 1]
    IN  [q EXCEPT !.capName = <<>>]

\* case "str"
addCapStr(p) ==
    LET value == p.buf
        q     == IF p.capName = UseName
                 THEN [p EXCEPT !.ti.Uses = Append(@, value)]
                 ELSE IF Has(stringNameCaps, p.capName)
                 THEN [p EXCEPT !.ti.Strings = Put(@, stringNameCaps[p.capName], value)]
                 ELSE IF Has(p.extStringNameCaps, p.capName)
                 THEN LET cap == p.extStringNameCaps[p.capName]
                      IN  [p EXCEPT !.ti.ExtStringNames = Put(@, cap, p.capName),
                                    !.ti.ExtStrings = Put(@, cap, value)]
                 ELSE [p EXCEPT !.extStringNameCaps = Put(@, p.capName, p.extStringIdx),
                                !.ti.ExtStringNames = Put(@, p.extStringIdx, p.capName),
                                !.ti.ExtStrings = Put(@, p.extStringIdx, value),
                                !.extStringIdx = @ + 1]
    IN  [q EXCEPT !.capName = <<>>]

\* Every branch writes through ti: with ti nil that is a nil-pointer panic.
addCap(p, typ) ==
    IF p.ti = Nil THEN [p EXCEPT !.panic = TRUE]
    ELSE LET q == CASE typ = "bool" -> addCapBool(p)
                    [] typ = "num"  -> addCapNum(p)
                    [] typ = "str"  -> addCapStr(p)
         IN  [q EXCEPT !.buf = <<>>, !.esc = GROUND]

-----------------------------------------------------------------------------
(* The character loop over one trimmed continuation line.                  *)

IsOctal(c) == c >= 48 /\ c <= 55

\* A variant of the control-character step that adds 64 instead of flipping
\* the bit. C10 tells it from Xor64.
Add64(c) == (c + 64) % 256

\* c ^ 1<<6 on a byte.
Xor64(c) == IF (c \div 64) % 2 = 1 THEN c - 64 ELSE c + 64

\* The test of the octal branch at 0-based index idx of str.
OctalAt(str, idx) ==
    /\ idx + 2 < Len(str)
    /\ IsOctal(str[idx + 2])
    /\ IsOctal(str[idx + 3])

\* A variant of the octal byte computed in int, without the wrap of uint8.
\* C18 tells it from OctalByte.
OctalInt(c, c1, c2) == (c - 48) * 64 + (c1 - 48) * 8 + (c2 - 48)

\* The byte the octal branch writes: uint8 arithmetic.
OctalByte(c, c1, c2) == ((c - 48) * 64 + (c1 - 48) * 8 + (c2 - 48)) % 256

\* case ESC
stepESC(p, str, idx) ==
    LET c == str[idx + 1]
        q == CASE c = Ch.E \/ c = Ch.e -> [p EXCEPT !.buf = Append(@, 27)]
               [] IsOctal(c) ->
                    IF OctalAt(str, idx)
                    THEN [p EXCEPT !.buf = Append(@, OctalByte(c, str[idx + 2], str[idx + 3]))]
                    ELSE IF c = 48 THEN [p EXCEPT !.buf = Append(@, 0)]
                    ELSE p
               [] c = Ch.n -> [p EXCEPT !.buf = Append(@, 10)]
               [] c = Ch.r -> [p EXCEPT !.buf = Append(@, 13)]
               [] c = Ch.t -> [p EXCEPT !.buf = Append(@, 9)]
               [] c = Ch.b -> [p EXCEPT !.buf = Append(@, 8)]
               [] c = Ch.f -> [p EXCEPT !.buf = Append(@, 12)]
               [] c = Ch.s -> [p EXCEPT !.buf = Append(@, 32)]
               [] c = Ch.comma -> [p EXCEPT !.buf = Append(@, 44)]
               [] c = Ch.l -> [p EXCEPT !.panic = TRUE]
               [] OTHER -> [p EXCEPT !.buf = Append(@, c)]
    IN  [q EXCEPT !.esc = NONE]

\* One iteration of the loop body at index idx.
StepChar(p, str, idx) ==
    LET c == str[idx + 1]
    IN  CASE p.esc = GROUND ->
               (CASE c = Ch.eq -> [p EXCEPT !.capName = p.buf, !.buf = <<>>, !.esc = NONE]
                  [] c = Ch.hash -> [p EXCEPT !.capName = p.buf, !.buf = <<>>, !.esc = INT]
                  [] c = Ch.comma ->
                       IF p.capName = <<>>
                       THEN LET q == addCap(p, "bool") IN [q EXCEPT !.buf = <<>>]
                       ELSE [p EXCEPT !.buf = <<>>]
                  [] c = Ch.sp -> p
                  [] OTHER -> [p EXCEPT !.buf = Append(@, c)])
          [] p.esc = INT ->
               IF c = Ch.comma
               THEN LET q == addCap(p, "num") IN [q EXCEPT !.esc = GROUND]
               ELSE [p EXCEPT !.buf = Append(@, c)]
          [] p.esc = NONE ->
               (CASE c = Ch.bsl -> [p EXCEPT !.esc = ESC]
                  [] c = Ch.caret -> [p EXCEPT !.esc = CTRL]
                  [] c = Ch.sp -> p
                  [] c = Ch.comma ->
                       LET q == addCap(p, "str") IN [q EXCEPT !.esc = GROUND]
                  [] OTHER -> [p EXCEPT !.buf = Append(@, c)])
          [] p.esc = CTRL -> [p EXCEPT !.buf = Append(@, Xor64(c)), !.esc = NONE]
          [] p.esc = ESC -> stepESC(p, str, idx)

\* The index of the next iteration: i++ of the for clause, after the i = i + 2
\* of the octal branch.
NextIndex(p, str, idx) ==
    IF p.esc = ESC /\ IsOctal(str[idx + 1]) /\ OctalAt(str, idx)
    THEN idx + 3
    ELSE idx + 1

\* The whole loop from index idx on; a panic ends it.
RECURSIVE RunLine(_, _, _)
RunLine(p, str, idx) ==
    IF p.panic \/ idx >= Len(str) THEN p
    ELSE RunLine(StepChar(p, str, idx), str, NextIndex(p, str, idx))

-----------------------------------------------------------------------------
(* Use resolution.                                                         *)

\* findTerminfo: the 1-based position of the first entry that has the name,
\* 0 for nil.
findTerminfo(list, name) ==
    LET hits == {k \in 1..Len(list) :
                    \E j \in 1..Len(list[k].Names) : list[k].Names[j] = name}
    IN  IF hits = {} THEN 0 ELSE CHOOSE k \in hits : \A m \in hits : k <= m

\* A variant of the collecting loop without its "!ok" test: the value of the
\* used entry overwrites. C1 tells it from MergeMap.
MergeMapOverwrite(mine, theirs) ==
    [k \in DOMAIN mine \cup DOMAIN theirs |->
        IF k \in DOMAIN theirs THEN theirs[k] ELSE mine[k]]

\* One "for k, v := range u.X { if _, ok := ti.X[k]; !ok { ti.X[k] = v } }".
MergeMap(mine, theirs) ==
    [k \in DOMAIN mine \cup DOMAIN theirs |->
        IF k \in DOMAIN mine THEN mine[k] ELSE theirs[k]]

\* A variant of the collecting loops without the loop over u.ExtNums: the
\* names of the extended numerics are collected, their values are not. C20
\* tells it from Collect.
CollectWithoutExtNums(t, u) ==
    [t EXCEPT !.Bools = MergeMap(@, u.Bools),
              !.Nums = MergeMap(@, u.Nums),
              !.Strings = MergeMap(@, u.Strings),
              !.ExtBoolNames = MergeMap(@, u.ExtBoolNames),
              !.ExtNumNames = MergeMap(@, u.ExtNumNames),
              !.ExtStringNames = MergeMap(@, u.ExtStringNames),
              !.ExtBools = MergeMap(@, u.ExtBools),
              !.ExtStrings = MergeMap(@, u.ExtStrings)]

\* The nine collecting loops of resolveUses.
Collect(t, u) ==
    [t EXCEPT !.Bools = MergeMap(@, u.Bools),
              !.Nums = MergeMap(@, u.Nums),
              !.Strings = MergeMap(@, u.Strings),
              !.ExtBoolNames = MergeMap(@, u.ExtBoolNames),
              !.ExtNumNames = MergeMap(@, u.ExtNumNames),
              !.ExtStringNames = MergeMap(@, u.ExtStringNames),
              !.ExtBools = MergeMap(@, u.ExtBools),
              !.ExtNums = MergeMap(@, u.ExtNums),
              !.ExtStrings = MergeMap(@, u.ExtStrings)]

\* The result of a call that never returns.
Diverged == [diverged |-> TRUE]

\* A variant of resolveUses that collects from the used entry without going
\* through that entry's own uses. C11 tells it from resolveUses.
resolveUsesFlat(list, t, use, depth) ==
    LET k == findTerminfo(list, use)
    IN  IF k = 0 THEN t ELSE Collect(t, list[k])

\* resolveUses(tis, ti, use), with t the value of *ti and the value of *ti
\* as the result.  depth counts the frames of resolveUses on the stack: beyond
\* Len(list) frames some entry is on the stack twice, and since neither Names
\* nor Uses ever change the call then repeats itself without end.
RECURSIVE resolveUses(_, _, _, _)
RECURSIVE resolveList(_, _, _, _)
resolveUses(list, t, use, depth) ==
    LET k == findTerminfo(list, use)
    IN  IF t = Diverged THEN Diverged
        ELSE IF k = 0 THEN t
        ELSE IF depth > Len(list) THEN Diverged
        ELSE LET t1 == resolveList(list, t, list[k].Uses, depth + 1)
             IN  IF t1 = Diverged THEN Diverged ELSE Collect(t1, list[k])

\* "for _, uu := range uses { resolveUses(tis, ti, uu) }"
resolveList(list, t, uses, depth) ==
    IF uses = <<>> \/ t = Diverged THEN t
    ELSE resolveList(list, resolveUses(list, t, Head(uses), depth), Tail(uses), depth)

-----------------------------------------------------------------------------
(* Parse, one action per iteration of its loops.                           *)

\* Bounds of the model.
MaxLines == 7
MaxEntries == 3

SetLocals(p) ==
    /\ ti' = p.ti
    /\ capName' = p.capName
    /\ esc' = p.esc
    /\ buf' = p.buf
    /\ extBoolIdx' = p.extBoolIdx
    /\ extNumIdx' = p.extNumIdx
    /\ extStringIdx' = p.extStringIdx
    /\ extBoolNameCaps' = p.extBoolNameCaps
    /\ extNumNameCaps' = p.extNumNameCaps
    /\ extStringNameCaps' = p.extStringNameCaps

lexvars == <<capName, esc, buf, extBoolIdx, extNumIdx, extStringIdx,
             extBoolNameCaps, extNumNameCaps, extStringNameCaps>>

\* The switch at the top of the line loop and the test of line[0].
LineKind(line) ==
    IF (line # <<>> /\ line[1] = Ch.hash) \/ TrimSpace(line) = <<>> THEN "skip"
    ELSE IF ~IsSpace(line[1]) THEN "header"
    ELSE "cont"

\* The state Parse starts in.
InitParse ==
    /\ ln = 0
    /\ tis = <<>>
    /\ ti = Nil
    /\ capName = <<>>
    /\ esc = GROUND
    /\ buf = <<>>
    /\ extBoolIdx = 0 /\ extNumIdx = 0 /\ extStringIdx = 0
    /\ extBoolNameCaps = EmptyMap
    /\ extNumNameCaps = EmptyMap
    /\ extStringNameCaps = EmptyMap
    /\ s = <<>>
    /\ i = 0
    /\ pc = "lines"
    /\ ri = 0
    /\ parsed = <<>>

\* A comment or blank line: continue.
SkipLine(line) ==
    /\ pc = "lines"
    /\ LineKind(line) = "skip"
    /\ ln' = ln + 1
    /\ UNCHANGED <<rvars, dvars, input, tok, tis, ti, lexvars, s, i, pc, ri, parsed>>

\* A line that starts an entry.
HeaderLine(line) ==
    /\ pc = "lines"
    /\ LineKind(line) = "header"
    /\ Len(tis) + (IF ti = Nil THEN 0 ELSE 1) < MaxEntries
    /\ tis' = IF ti # Nil THEN Append(tis, ti) ELSE tis
    /\ ti' = NewTerminfo(Split(Split(line, Ch.comma)[1], Ch.bar))
    /\ ln' = ln + 1
    /\ UNCHANGED <<rvars, dvars, input, tok, lexvars, s, i, pc, ri, parsed>>

\* A continuation line, its character loop run to the end.
ScanLine(line) ==
    /\ pc = "lines"
    /\ LineKind(line) = "cont"
    /\ LET p == RunLine(Locals, TrimSpace(line), 0)
       IN  /\ SetLocals(p)
           /\ pc' = IF p.panic THEN "panic" ELSE "lines"
    /\ ln' = ln + 1
    /\ UNCHANGED <<rvars, dvars, input, tok, tis, s, i, ri, parsed>>

\* A continuation line, entered: s := strings.TrimSpace(line); i := 0.
BeginLine(line) ==
    /\ pc = "lines"
    /\ LineKind(line) = "cont"
    /\ s' = TrimSpace(line)
    /\ i' = 0
    /\ pc' = "chars"
    /\ UNCHANGED <<rvars, dvars, input, tok, ln, tis, ti, lexvars, ri, parsed>>

\* One iteration of the character loop.
Char ==
    /\ pc = "chars"
    /\ i < Len(s)
    /\ LET p == StepChar(Locals, s, i)
       IN  /\ SetLocals(p)
           /\ pc' = IF p.panic THEN "panic" ELSE "chars"
    /\ i' = NextIndex(Locals, s, i)
    /\ UNCHANGED <<rvars, dvars, input, tok, ln, tis, s, ri, parsed>>

\* The character loop ends; the line loop goes on.
EndLine ==
    /\ pc = "chars"
    /\ i >= Len(s)
    /\ pc' = "lines"
    /\ ln' = ln + 1
    /\ UNCHANGED <<rvars, dvars, input, tok, tis, ti, lexvars, s, i, ri, parsed>>

\* The line loop ends: the last entry is appended and resolution starts.
EndOfInput ==
    /\ pc = "lines"
    /\ tis' = IF ti # Nil THEN Append(tis, ti) ELSE tis
    /\ parsed' = tis'
    /\ ri' = 0
    /\ pc' = "resolve"
    /\ UNCHANGED <<rvars, dvars, input, tok, ln, ti, lexvars, s, i>>

\* One iteration of "for i, ti := range tis": all the uses of tis[ri].
ResolveEntry ==
    /\ pc = "resolve"
    /\ ri < Len(tis)
    /\ LET t == resolveList(tis, tis[ri + 1], tis[ri + 1].Uses, 1)
       IN  IF t = Diverged
           THEN pc' = "overflow" /\ UNCHANGED <<tis, ri>>
           ELSE /\ tis' = [tis EXCEPT ![ri + 1] = t]
                /\ ri' = ri + 1
                /\ pc' = pc
    /\ UNCHANGED <<rvars, dvars, input, tok, ln, ti, lexvars, s, i, parsed>>

\* return tis, nil
Return ==
    /\ pc = "resolve"
    /\ ri >= Len(tis)
    /\ pc' = "done"
    /\ UNCHANGED <<rvars, dvars, input, tok, ln, tis, ti, lexvars, s, i, ri, parsed>>

-----------------------------------------------------------------------------
(* Use resolution over a batch: the text is any sequence of these lines.   *)

\* Header lines "A,", "B,", "C,".
HdrA == <<65, 44>>
HdrB == <<66, 44>>
HdrC == <<67, 44>>

\* "\tcols#5, xa, el=b,"  and  "\tcols#7, xb, xa, el=c,": a standard numeric,
\* extended booleans and a standard string, with two different sets of values.
LnCaps5 == <<9, 99, 111, 108, 115, 35, 53, 44, 32, 120, 97, 44, 32,
             101, 108, 61, 98, 44>>
LnCaps7 == <<9, 99, 111, 108, 115, 35, 55, 44, 32, 120, 98, 44, 32, 120, 97, 44, 32,
             101, 108, 61, 99, 44>>

\* "\tuse=B,", "\tuse=C,"
LnUseB == <<9, 117, 115, 101, 61, 66, 44>>
LnUseC == <<9, 117, 115, 101, 61, 67, 44>>

UseLines == {HdrA, HdrB, HdrC, LnCaps5, LnCaps7, LnUseB, LnUseC}

NoTok == [none |-> TRUE]

\* No compiled file is being decoded, the pool holds no reader and the
\* registry is empty.
InitIdle ==
    /\ file = <<>>
    /\ r = Nil
    /\ err = "nil"
    /\ dpc = "idle"
    /\ readerPool = {}
    /\ tim = EmptyMap
    /\ history = <<>>

InitUse == InitParse /\ InitIdle /\ input = <<>> /\ tok = NoTok

NextUse ==
    \/ \E line \in UseLines :
          /\ ln < MaxLines
          /\ \/ HeaderLine(line)
             \/ ScanLine(line)
    \/ EndOfInput
    \/ ResolveEntry
    \/ Return

SpecUse == InitUse /\ [][NextUse]_vars

-----------------------------------------------------------------------------
(* Properties of use resolution.                                           *)

\* The nine capability maps of an entry.
CapFields == {"Bools", "Nums", "Strings", "ExtBools", "ExtNums", "ExtStrings",
              "ExtBoolNames", "ExtNumNames", "ExtStringNames"}

\* The entries that entry a of the batch names in its Uses, by alias lookup.
UsedBy(list, a) ==
    {findTerminfo(list, list[a].Uses[j]) : j \in 1..Len(list[a].Uses)} \ {0}

\* The entries reachable from the set S by following use references.
RECURSIVE ReachFrom(_, _)
ReachFrom(list, S) ==
    LET N == S \cup UNION {UsedBy(list, e) : e \in S}
    IN  IF N = S THEN S ELSE ReachFrom(list, N)

\* The entries whose capabilities reach entry a no later than those of b, one
\* of the entries a uses: whatever a's earlier uses reach, and whatever b's own
\* uses reach.
MergedBefore(list, a, b) ==
    LET first == CHOOSE j \in 1..Len(list[a].Uses) :
                    /\ findTerminfo(list, list[a].Uses[j]) = b
                    /\ \A m \in 1..(j - 1) : findTerminfo(list, list[a].Uses[m]) # b
        early == {findTerminfo(list, list[a].Uses[m]) : m \in 1..(first - 1)} \ {0}
    IN  ReachFrom(list, early) \cup ReachFrom(list, UsedBy(list, b))

C2_NearerDefinitionWins ==
    pc = "done" =>
        \A a, b, c \in 1..Len(tis) :
            ( /\ UsedBy(parsed, a) = {b}
              /\ UsedBy(parsed, b) = {c}
              /\ UsedBy(parsed, c) = {}
              /\ a # b /\ b # c /\ a # c )
            => \A f \in CapFields :
                  \A k \in (DOMAIN parsed[b][f] \cap DOMAIN parsed[c][f]) \ DOMAIN parsed[a][f] :
                      tis[a][f][k] = parsed[b][f][k]

-----------------------------------------------------------------------------
(* Extended capabilities, the character loop taken one iteration at a      *)
(* time: the text is any sequence of these lines.                          *)

MaxExtLines == 4

\* "# c" and " ": a comment and a blank line.
LnComment == <<35, 32, 99>>
LnBlank == <<32>>

\* "\txa, ya#1, za=b,"  and  "\txb, yb#2, zb=c,": one extended capability of
\* each kind.
LnExtA == <<9, 120, 97, 44, 32, 121, 97, 35, 49, 44, 32, 122, 97, 61, 98, 44>>
LnExtB == <<9, 120, 98, 44, 32, 121, 98, 35, 50, 44, 32, 122, 98, 61, 99, 44>>

ExtLines == {HdrA, HdrB, LnComment, LnBlank, LnExtA, LnExtB}

NextExt ==
    \/ \E line \in ExtLines :
          /\ ln < MaxExtLines
          /\ \/ SkipLine(line)
             \/ HeaderLine(line)
             \/ BeginLine(line)
    \/ Char
    \/ EndLine
    \/ EndOfInput
    \/ ResolveEntry
    \/ Return

SpecExt == InitUse /\ [][NextExt]_vars

\* The entries begun so far.
Entries == {tis[k] : k \in 1..Len(tis)} \cup (IF ti = Nil THEN {} ELSE {ti})

ExtNameFields == {"ExtBoolNames", "ExtNumNames", "ExtStringNames"}

C3Kind(f, caps, capsNext, idx, idxNext) ==
    /\ \A nm \in DOMAIN caps : nm \in DOMAIN capsNext /\ capsNext[nm] = caps[nm]
    /\ Cardinality(DOMAIN capsNext \ DOMAIN caps) <= 1
    /\ \A nm \in DOMAIN capsNext \ DOMAIN caps :
          /\ capsNext[nm] = idx
          /\ idxNext = idx + 1
          /\ ti'[f][idx] = nm
    /\ (DOMAIN capsNext = DOMAIN caps) => idxNext = idx
    /\ (ti' # Nil) =>
          \A k \in DOMAIN ti'[f] : Has(capsNext, ti'[f][k]) /\ capsNext[ti'[f][k]] = k

C3Indices(caps, idx) == {caps[nm] : nm \in DOMAIN caps} = 0..(idx - 1)

C8_ParseNeverAborts == pc \notin {"panic", "overflow"}

-----------------------------------------------------------------------------
(* One well-formed entry: a header line and one continuation line          *)
(* "\t<b>, <n>#<d>, <s>=<v>," written from the tokens in tok.              *)

MaxVal == 4

\* The characters a value is written with:  \  ^  E  1  space  comma.
ValAlphabet == {92, 94, 69, 49, 32, 44}

SeqsUpTo(A, n) == UNION {[1..k -> A] : k \in 0..n}

\* Header lines with the alias lists they spell: "A,"  and  "A|B c,".
TokHeaders ==
    {[line |-> <<65, 44>>, names |-> << <<65>> >>],
     [line |-> <<65, 124, 66, 32, 99, 44>>, names |-> << <<65>>, <<66, 32, 99>> >>]}

\* Numeric literals with their values: "5", "80", "0x1f"; and literals that
\* are no numbers: "8a", "0x", "".
TokLiterals ==
    {[text |-> <<53>>, ok |-> TRUE, val |-> 5],
     [text |-> <<56, 48>>, ok |-> TRUE, val |-> 80],
     [text |-> <<48, 120, 49, 102>>, ok |-> TRUE, val |-> 31],
     [text |-> <<56, 97>>, ok |-> FALSE, val |-> 0],
     [text |-> <<48, 120>>, ok |-> FALSE, val |-> 0],
     [text |-> <<>>, ok |-> FALSE, val |-> 0]}

\* Standard names: "am", "cols", "el".
TokSet ==
    {[hdr |-> h, b |-> <<97, 109>>, n |-> <<99, 111, 108, 115>>, d |-> d,
      sname |-> <<101, 108>>, v |-> v] :
        h \in TokHeaders, d \in TokLiterals, v \in SeqsUpTo(ValAlphabet, MaxVal)}

Text(k) ==
    << k.hdr.line,
       <<9>> \o k.b \o <<44, 32>> \o k.n \o <<35>> \o k.d.text \o <<44, 32>>
             \o k.sname \o <<61>> \o k.v \o <<44>> >>

InitTok == InitParse /\ InitIdle /\ tok \in TokSet /\ input = Text(tok)

NextTok ==
    \/ /\ ln < Len(input)
       /\ \/ HeaderLine(input[ln + 1])
          \/ ScanLine(input[ln + 1])
    \/ /\ ln = Len(input)
       /\ EndOfInput
    \/ ResolveEntry
    \/ Return

SpecTok == InitTok /\ [][NextTok]_vars

\* The escapes of the source format and the byte each stands for:
\* \E \e \n \r \t \b \f \s \,
EscTable ==
    (69 :> 27) @@ (101 :> 27) @@ (110 :> 10) @@ (114 :> 13) @@ (116 :> 9)
    @@ (98 :> 8) @@ (102 :> 12) @@ (115 :> 32) @@ (44 :> 44)

OctalValue(v) == (v[2] - 48) * 64 + (v[3] - 48) * 8 + (v[4] - 48)

IsOctalEscape(v) ==
    /\ Len(v) >= 4
    /\ \A j \in 2..4 : v[j] \in 48..55
    /\ OctalValue(v) <= 255

\* A value made of plain characters and of the escapes of the format, with no
\* unescaped comma.
RECURSIVE WellFormedVal(_)
WellFormedVal(v) ==
    IF v = <<>> THEN TRUE
    ELSE IF v[1] = 92
         THEN \/ IsOctalEscape(v) /\ WellFormedVal(SubSeq(v, 5, Len(v)))
              \/ Len(v) >= 2 /\ v[2] \in DOMAIN EscTable
                 /\ WellFormedVal(SubSeq(v, 3, Len(v)))
    ELSE IF v[1] = 94 THEN Len(v) >= 2 /\ WellFormedVal(SubSeq(v, 3, Len(v)))
    ELSE IF v[1] = 44 THEN FALSE
    ELSE WellFormedVal(Tail(v))

\* A well-formed value with its escapes decoded; dropSp says whether the
\* unescaped spaces are left out.
RECURSIVE Unescape(_, _)
Unescape(v, dropSp) ==
    IF v = <<>> THEN <<>>
    ELSE IF v[1] = 92
         THEN IF IsOctalEscape(v)
              THEN <<OctalValue(v)>> \o Unescape(SubSeq(v, 5, Len(v)), dropSp)
              ELSE <<EscTable[v[2]]>> \o Unescape(SubSeq(v, 3, Len(v)), dropSp)
    ELSE IF v[1] = 94
         THEN <<(v[2] + 64) % 128>> \o Unescape(SubSeq(v, 3, Len(v)), dropSp)
    ELSE IF v[1] = 32 /\ dropSp THEN Unescape(Tail(v), dropSp)
    ELSE <<v[1]>> \o Unescape(Tail(v), dropSp)

\* The one model a well-formed entry yields, given its decoded string value.
TokModel(k, str) ==
    [NewTerminfo(k.hdr.names) EXCEPT
        !.Bools = (boolNameCaps[k.b] :> TRUE),
        !.Nums = (numNameCaps[k.n] :> k.d.val),
        !.Strings = (stringNameCaps[k.sname] :> str)]

\* C10 as stated: a well-formed entry yields exactly one model with the
\* names of the header, the bool true, the numeric at the value of its
\* literal and the string at its value with the escapes decoded.
C10_TokensDecoded ==
    (pc = "done" /\ tok.d.ok /\ WellFormedVal(tok.v))
        => tis = <<TokModel(tok, Unescape(tok.v, FALSE))>>

\* C10 amended: ... and the string at its value with the escapes decoded and
\* the unescaped spaces left out.
C10_TokensDecodedSpacesSkipped ==
    (pc = "done" /\ tok.d.ok /\ WellFormedVal(tok.v))
        => tis = <<TokModel(tok, Unescape(tok.v, TRUE))>>

\* "A|B c,", "\tam, cols#0x1f, el=\E 1," has been parsed: two names, am,
\* cols = 31 and el = ESC 1.
C10_Witness ==
    /\ pc = "done"
    /\ tok.v = <<92, 69, 32, 49>>
    /\ tok.d.text = <<48, 120, 49, 102>>
    /\ Len(tok.hdr.names) = 2
    /\ Len(tis) = 1
    /\ tis[1].Names = << <<65>>, <<66, 32, 99>> >>
    /\ tis[1].Bools = (1 :> TRUE)
    /\ tis[1].Nums = (0 :> 31)
    /\ tis[1].Strings = (6 :> <<27, 49>>)

\* C4: a numeric token whose literal fails to parse is dropped: the entry has
\* no value for its name, standard or extended, and the token after it is
\* parsed as usual.
C4_BadLiteralDropped ==
    (pc = "done" /\ ~tok.d.ok)
        => /\ Len(tis) = 1
           /\ ~Has(tis[1].Nums, numNameCaps[tok.n])
           /\ tis[1].ExtNums = EmptyMap
           /\ WellFormedVal(tok.v)
                 => Has(tis[1].Strings, stringNameCaps[tok.sname])

-----------------------------------------------------------------------------
(* The reader of compiled files.                                           *)

\* The magic number of a compiled file, 0x11A.
Magic == 282

\* The number of int16 fields of a header.
HeaderLen == 6

\* The size of the buffer of a reader made by the pool.
BufSize == 3000

\* A Go int16: a sum or product reduced to 16 bits, two's complement.
Int16(n) == ((n + 32768) % 65536) - 32768

\* Go's % on integers: the remainder has the sign of the dividend.
Rem(a, b) == IF a >= 0 THEN a % b ELSE -((-a) % b)

\* The signed 16-bit little-endian value at bytes off and off+1 of b, off
\* counted from 0.
littleEndian(off, b) == Int16(b[off + 1] + 256 * b[off + 2])

\* A header is a function on 0..5, as the array of the code.
ZeroHeader == [k \in 0..(HeaderLen - 1) |-> 0]

\* A variant of badMagic that compares the high byte only. C6 tells it from
\* badMagic.
badMagicHigh(h) == h[0] \div 256 # Magic \div 256

badMagic(h) == h[0] # Magic

lenNames(h) == h[1]

lenBools(h) == h[2]

lenNumeric(h) == Int16(h[3] * 2)

lenStrings(h) == Int16(h[4] * 2)

lenTable(h) == h[5]

lenFile(h) == Int16(h[1] + h[2] + h[3] + h[4] + h[5])

len(h) == Int16(HeaderLen * 2)

skipNull(h) == Rem(Int16(lenNames(h) + lenBools(h)), 2) = 1

\* The model a reader fills: the names and the three maps from index to value.
NewModel ==
    [Names |-> <<>>, BoolCaps |-> EmptyMap, NumericCaps |-> EmptyMap,
     StringCaps |-> EmptyMap]

\* readerPool.New
NewReader ==
    [pos |-> 0, ppos |-> 0, buf |-> [j \in 1..BufSize |-> 0], ti |-> Nil,
     h |-> ZeroHeader]

\* free, up to the Put.
free(rd) == [rd EXCEPT !.pos = 0, !.ppos = 0, !.h = ZeroHeader]

\* b[lo:hi] panics unless 0 <= lo <= hi <= cap(b); the buffers of a reader
\* are made by make([]byte, n), of capacity n.
InBounds(b, lo, hi) == 0 <= lo /\ lo <= hi /\ hi <= Len(b)

slice(rd) == SubSeq(rd.buf, rd.ppos + 1, rd.pos)

\* sliceOff moves the two positions; slice of the result is what it returns.
sliceOff(rd, off) == [rd EXCEPT !.ppos = rd.pos, !.pos = Int16(rd.pos + off)]

\* What a step of read leaves: the reader and the error, "nil" for none.
Ok(rd) == [r |-> rd, err |-> "nil"]
Fail(rd, e) == [r |-> rd, err |-> e]

readHeader(rd, f) ==
    IF Len(f) < HeaderLen THEN Fail(rd, "SmallFile")
    ELSE LET b == IF Len(f) < Len(rd.buf) THEN f ELSE SubSeq(f, 1, Len(rd.buf))
             rb == [rd EXCEPT !.buf = b]
         IN  IF \E k \in 0..(HeaderLen - 1) : k * 2 + 2 > Len(b)
             THEN Fail(rb, "panic")
             ELSE LET h == [k \in 0..(HeaderLen - 1) |-> littleEndian(k * 2, b)]
                      rh == [rb EXCEPT !.h = h]
                  IN  IF lenFile(h) > Len(b) THEN Fail(rh, "SmallFile")
                      ELSE IF badMagic(h) THEN Fail(rh, "BadMagic")
                      ELSE Ok(rh)

readNames(rd) ==
    LET p == [rd EXCEPT !.ppos = len(rd.h),
                        !.pos = Int16(len(rd.h) + lenNames(rd.h)),
                        !.ti = NewModel]
    IN  IF ~InBounds(p.buf, p.ppos, p.pos) THEN Fail(p, "panic")
        ELSE Ok([p EXCEPT !.ti.Names = Split(slice(p), Ch.bar)])

readBools(rd) ==
    LET p == sliceOff(rd, lenBools(rd.h))
    IN  IF ~InBounds(p.buf, p.ppos, p.pos) THEN Fail(p, "panic")
        ELSE LET bs == slice(p)
                 set == {k \in 0..(Len(bs) - 1) : bs[k + 1] = 1}
                 q == [p EXCEPT !.ti.BoolCaps =
                          [k \in set \cup DOMAIN p.ti.BoolCaps |-> TRUE]]
             IN  Ok(IF skipNull(q.h) THEN [q EXCEPT !.pos = Int16(q.pos + 1)]
                    ELSE q)

\* A variant of readNumbers that takes only -1 for the absent value and
\* stores every other word. C16 tells it from readNumbers.
readNumbersOnlyMinusOne(rd) ==
    LET p == sliceOff(rd, lenNumeric(rd.h))
    IN  IF ~InBounds(p.buf, p.ppos, p.pos) THEN Fail(p, "panic")
        ELSE LET nbuf == slice(p)
                 slots == {k \in 0..(Len(nbuf) - 1) : k * 2 < Len(nbuf)}
             IN  IF \E k \in slots : k * 2 + 2 > Len(nbuf) THEN Fail(p, "panic")
                 ELSE LET set == {k \in slots : littleEndian(k * 2, nbuf) # -1}
                      IN  Ok([p EXCEPT !.ti.NumericCaps =
                                 [k \in set |-> littleEndian(k * 2, nbuf)]])

readNumbers(rd) ==
    LET p == sliceOff(rd, lenNumeric(rd.h))
    IN  IF ~InBounds(p.buf, p.ppos, p.pos) THEN Fail(p, "panic")
        ELSE LET nbuf == slice(p)
                 slots == {k \in 0..(Len(nbuf) - 1) : k * 2 < Len(nbuf)}
             IN  IF \E k \in slots : k * 2 + 2 > Len(nbuf) THEN Fail(p, "panic")
                 ELSE LET set == {k \in slots : littleEndian(k * 2, nbuf) > -1}
                      IN  Ok([p EXCEPT !.ti.NumericCaps =
                                 [k \in set |-> littleEndian(k * 2, nbuf)]])

\* The scan for the NUL that ends the string at offset x of the table.
RECURSIVE scanString(_, _)
scanString(table, x) ==
    IF x >= Len(table) THEN [err |-> "panic"]
    ELSE IF table[x + 1] = 0 THEN [err |-> "nil", x |-> x]
    ELSE IF x + 1 >= Len(table) THEN [err |-> "BadString"]
    ELSE scanString(table, x + 1)

\* The loop of readStrings from slot j on.
RECURSIVE readStringsFrom(_, _, _, _)
readStringsFrom(p, sbuf, table, j) ==
    IF j >= Len(sbuf) THEN Ok(p)
    ELSE IF j + 2 > Len(sbuf) THEN Fail(p, "panic")
    ELSE LET off == littleEndian(j, sbuf)
         IN  IF off > -1
             THEN LET end == scanString(table, off)
                  IN  IF end.err # "nil" THEN Fail(p, end.err)
                      ELSE readStringsFrom(
                               [p EXCEPT !.ti.StringCaps =
                                   Put(p.ti.StringCaps, j \div 2,
                                       SubSeq(table, off + 1, end.x))],
                               sbuf, table, j + 2)
             ELSE readStringsFrom(p, sbuf, table, j + 2)

readStrings(rd) ==
    LET p == sliceOff(rd, lenStrings(rd.h))
        hi == Int16(p.pos + lenTable(p.h))
    IN  IF ~InBounds(p.buf, p.ppos, p.pos) THEN Fail(p, "panic")
        ELSE IF ~InBounds(p.buf, p.pos, hi) THEN Fail(p, "panic")
        ELSE readStringsFrom(p, slice(p), SubSeq(p.buf, p.pos + 1, hi), 0)

\* read: the five steps in turn, stopping at the first error.
read(rd, f) ==
    LET a == readHeader(rd, f)
        b == IF a.err = "nil" THEN readNames(a.r) ELSE a
        c == IF b.err = "nil" THEN readBools(b.r) ELSE b
        d == IF c.err = "nil" THEN readNumbers(c.r) ELSE c
    IN  IF d.err = "nil" THEN readStrings(d.r) ELSE d

-----------------------------------------------------------------------------
(* Decoding a file: a reader is made or taken from the pool, read runs its *)
(* five steps, and free puts the reader back.                              *)

\* A step of read has left res; next is the step after it.
Step(res, next) ==
    /\ r' = res.r
    /\ err' = res.err
    /\ dpc' = IF res.err = "nil" THEN next ELSE "return"
    /\ UNCHANGED <<file, readerPool, pvars, rvars>>

\* The pool is empty: it makes a reader.
New(f) ==
    /\ dpc = "idle"
    /\ readerPool = {}
    /\ r' = NewReader
    /\ file' = f
    /\ err' = "nil"
    /\ dpc' = "readHeader"
    /\ UNCHANGED <<readerPool, pvars, rvars>>

\* The pool hands out a reader that free put into it.
Get(f) ==
    /\ dpc = "idle"
    /\ \E rd \in readerPool :
          /\ r' = rd
          /\ readerPool' = readerPool \ {rd}
    /\ file' = f
    /\ err' = "nil"
    /\ dpc' = "readHeader"
    /\ UNCHANGED <<pvars, rvars>>

StepHeader == dpc = "readHeader" /\ Step(readHeader(r, file), "readNames")

StepNames == dpc = "readNames" /\ Step(readNames(r), "readBools")

StepBools == dpc = "readBools" /\ Step(readBools(r), "readNumbers")

StepNumbers == dpc = "readNumbers" /\ Step(readNumbers(r), "readStrings")

StepStrings == dpc = "readStrings" /\ Step(readStrings(r), "return")

\* read has returned and the caller frees the reader; after a panic there is
\* no caller left.
Free ==
    /\ dpc = "return"
    /\ err # "panic"
    /\ r' = free(r)
    /\ readerPool' = readerPool \cup {free(r)}
    /\ dpc' = "idle"
    /\ UNCHANGED <<file, err, pvars, rvars>>

-----------------------------------------------------------------------------
(* Compiled files: the sections of a layout behind a header, whole or cut  *)
(* short, with the header as it should be or with one field changed.       *)

MaxOffs == 2
MaxTable == 3

\* The two bytes of a 16-bit value, low byte first.
LE16(v) == <<v % 256, (v % 65536) \div 256>>

RECURSIVE Words(_)
Words(ws) == IF ws = <<>> THEN <<>> ELSE LE16(Head(ws)) \o Words(Tail(ws))

\* "a|b"
NameBytes == <<97, 124, 98>>

BoolSecs == {<<>>, <<1>>, <<0, 1>>}

NumSecs == {<<>>, <<-1, 7>>, <<-2, 0>>}

OffSecs == SeqsUpTo({-1, 0, 2}, MaxOffs)

Tables == SeqsUpTo({0, 65}, MaxTable)

Layouts ==
    [names : {NameBytes}, bools : BoolSecs, nums : NumSecs, offs : OffSecs,
     table : Tables]

\* The header that describes the layout k.
TrueHeader(k) ==
    [x \in 0..(HeaderLen - 1) |->
        CASE x = 0 -> Magic
          [] x = 1 -> Len(k.names)
          [] x = 2 -> Len(k.bools)
          [] x = 3 -> Len(k.nums)
          [] x = 4 -> Len(k.offs)
          [] x = 5 -> Len(k.table)]

\* The file of layout k behind the header hd.
Compile(k, hd) ==
    Words([x \in 1..HeaderLen |-> hd[x - 1]])
    \o k.names \o k.bools
    \o (IF (Len(k.names) + Len(k.bools)) % 2 = 1 THEN <<0>> ELSE <<>>)
    \o Words(k.nums) \o Words(k.offs) \o k.table

Prefixes(f) == {SubSeq(f, 1, n) : n \in 0..Len(f)}

\* A wrong magic number, and the values a length field is changed to.
WrongMagic == Magic + 1
WrongLens == {-1, 100, 32767}

\* The headers of layout k with the magic m: the one that describes it, and
\* that one with one length field changed.
Headers(k, m) ==
    LET hd == [TrueHeader(k) EXCEPT ![0] = m]
    IN  {hd} \cup {[hd EXCEPT ![x] = v] : x \in 1..(HeaderLen - 1), v \in WrongLens}

\* The files of layout k: every prefix of the file as it should be, and the
\* whole file behind each header of the two magic numbers.
FilesOf(k) ==
    Prefixes(Compile(k, TrueHeader(k)))
    \cup {Compile(k, hd) : hd \in Headers(k, Magic) \cup Headers(k, WrongMagic)}

InitDecode == InitParse /\ InitIdle /\ input = <<>> /\ tok = NoTok

\* One file decoded with a new reader.
NextDecode ==
    \/ /\ dpc = "idle"
       /\ readerPool = {}
       /\ \E k \in Layouts : \E f \in FilesOf(k) : New(f)
    \/ StepHeader
    \/ StepNames
    \/ StepBools
    \/ StepNumbers
    \/ StepStrings
    \/ Free

SpecDecode == InitDecode /\ [][NextDecode]_vars

-----------------------------------------------------------------------------
(* Files decoded one after another, the reader of one decode put back and  *)
(* handed out to the next.                                                 *)

\* Whole files of 20 to 24 bytes, and a file of four bytes.
PoolLayouts ==
    {k \in Layouts : /\ k.nums = <<-1, 7>>
                     /\ k.bools \in {<<>>, <<1>>}
                     /\ k.offs \in {<<>>, <<0>>}
                     /\ k.table \in {<<>>, <<65, 0>>}}

PoolFiles ==
    {Compile(k, TrueHeader(k)) : k \in PoolLayouts} \cup {<<26, 1, 3, 0>>}

NextPool ==
    \/ /\ dpc = "idle"
       /\ readerPool = {}
       /\ \E f \in PoolFiles : New(f)
    \/ /\ dpc = "idle"
       /\ \E f \in PoolFiles : Get(f)
    \/ StepHeader
    \/ StepNames
    \/ StepBools
    \/ StepNumbers
    \/ StepStrings
    \/ Free

SpecPool == InitDecode /\ [][NextPool]_vars

-----------------------------------------------------------------------------
(* Properties of the reader.                                               *)

\* The six fields of the header of a file of at least twelve bytes.
HeaderOf(f) == [k \in 0..(HeaderLen - 1) |-> littleEndian(k * 2, f)]

\* The total length a header declares, its sections counted in bytes.
DeclaredLen(h) == h[1] + h[2] + 2 * h[3] + 2 * h[4] + h[5]

\* What a decode hands to its caller: the model, or the error.
Outcome(res) ==
    IF res.err = "nil" THEN [err |-> "nil", ti |-> res.r.ti]
    ELSE [err |-> res.err]

\* C5: a buffer shorter than the total length its header declares (names,
\* bools, twice the numeric words, twice the string words, table) is refused
\* with SmallFile.
C5_SmallFileBelowDeclaredLength ==
    ( /\ dpc = "return"
      /\ Len(file) >= 2 * HeaderLen
      /\ Len(file) < DeclaredLen(HeaderOf(file)) )
    => err = "SmallFile"

\* C6 as stated: a buffer of at least 12 bytes whose magic is not 0x11A is
\* refused with BadMagic, whatever its other header fields.
C6_BadMagicWhateverTheFields ==
    ( /\ dpc = "return"
      /\ Len(file) >= 2 * HeaderLen
      /\ HeaderOf(file)[0] # Magic )
    => err = "BadMagic"

\* C6 amended: a buffer of at least 12 bytes whose magic is not 0x11A is
\* refused, with SmallFile when the 16-bit sum of its five other header
\* fields as written exceeds the length of the buffer (the length check comes
\* first), and with BadMagic otherwise.
C6_BadMagicAfterLengthCheck ==
    ( /\ dpc = "return"
      /\ Len(file) >= 2 * HeaderLen
      /\ HeaderOf(file)[0] # Magic )
    => LET h == HeaderOf(file)
           sum == ((h[1] + h[2] + h[3] + h[4] + h[5] + 32768) % 65536) - 32768
       IN  err = IF sum > Len(file) THEN "SmallFile" ELSE "BadMagic"

\* A file of 23 bytes with the magic 0x11B, two numeric words and a string
\* table length changed to -1 has been refused with BadMagic.
C6_Witness ==
    /\ dpc = "return"
    /\ Len(file) = 23
    /\ HeaderOf(file)[0] = WrongMagic
    /\ HeaderOf(file)[3] = 2
    /\ HeaderOf(file)[5] = -1
    /\ err = "BadMagic"

\* C7: a decode with a reader taken from the pool ends as the decode of the
\* same file with a new reader does.
C7_PooledReaderAsNew ==
    dpc = "return" => Outcome([r |-> r, err |-> err]) = Outcome(read(NewReader, file))

\* Where the string offsets and the string table start in a file of header h.
OffsAt(h) == 2 * HeaderLen + h[1] + h[2] + ((h[1] + h[2]) % 2) + 2 * h[3]
TableAt(h) == OffsAt(h) + 2 * h[4]

\* The bytes of its string table that the file f holds.
TableOf(f) ==
    LET h == HeaderOf(f)
        hi == IF TableAt(h) + h[5] <= Len(f) THEN TableAt(h) + h[5] ELSE Len(f)
    IN  SubSeq(f, TableAt(h) + 1, hi)

\* The string slots that the file f holds, and the offset in slot j.
SlotsOf(f) ==
    {j \in 0..(HeaderOf(f)[4] - 1) : OffsAt(HeaderOf(f)) + 2 * j + 2 <= Len(f)}
OffsetOf(f, j) == littleEndian(OffsAt(HeaderOf(f)) + 2 * j, f)

\* The places of the NUL bytes of table t from offset o on.
NulsFrom(t, o) == {p \in o..(Len(t) - 1) : t[p + 1] = 0}

\* C9: in a buffer that has passed the header checks, a string offset inside
\* the table with no NUL from it to the end of the table makes the decode
\* return BadString; with a NUL after it, the value stored at the index of
\* its slot is the bytes from the offset up to the first such NUL.
C9_StringsEndAtNul ==
    ( /\ dpc = "return"
      /\ Len(file) >= 2 * HeaderLen
      /\ err \notin {"SmallFile", "BadMagic"}
      /\ \A x \in 1..(HeaderLen - 1) : HeaderOf(file)[x] >= 0 )
    => \A j \in SlotsOf(file) :
          LET t == TableOf(file)
              o == OffsetOf(file, j)
              nuls == NulsFrom(t, o)
          IN  (0 <= o /\ o < Len(t))
              => IF nuls = {} THEN err = "BadString"
                 ELSE err = "nil"
                      => /\ j \in DOMAIN r.ti.StringCaps
                         /\ r.ti.StringCaps[j] =
                               SubSeq(t, o + 1,
                                      CHOOSE p \in nuls : \A q \in nuls : p <= q)

-----------------------------------------------------------------------------
(* Termination of use resolution.                                          *)

\* Entry e of the batch reaches itself by following use references, and
\* entry a reaches such an entry.
OnCycle(list, e) == e \in ReachFrom(list, UsedBy(list, e))
ReachesCycle(list, a) ==
    \E e \in ReachFrom(list, UsedBy(list, a)) : OnCycle(list, e)

\* C11: Parse returns only from a batch in which no entry reaches itself by
\* following use references; the resolve loop gets past every entry that
\* reaches no such entry; and resolveUses recurses without end exactly on
\* the first entry that reaches one.
C11_TerminatesIffAcyclic ==
    /\ pc = "done" => \A e \in 1..Len(parsed) : ~OnCycle(parsed, e)
    /\ pc = "resolve" => \A a \in 1..ri : ~ReachesCycle(parsed, a)
    /\ pc = "overflow" => ReachesCycle(parsed, ri + 1)

\* The resolve loop is in a recursion without end on a batch of two entries
\* that use each other.
C11_Witness ==
    /\ pc = "overflow"
    /\ Len(parsed) = 2
    /\ UsedBy(parsed, 1) = {2}
    /\ UsedBy(parsed, 2) = {1}

-----------------------------------------------------------------------------
(* The registry of models: Terminfos, a map from alias to model.           *)

MaxSets == 4

\* Aliases "x", "y", "z", and "w", which no model lists.
RegNames == {<<120>>, <<121>>, <<122>>, <<119>>}

\* The models handed to the registry. A model is a pointer: id tells two
\* models with the same Names apart.
Instances ==
    {[id |-> 1, Names |-> << <<120>>, <<121>> >>],
     [id |-> 2, Names |-> << <<121>>, <<122>> >>],
     [id |-> 3, Names |-> << <<120>>, <<121>> >>],
     [id |-> 4, Names |-> << <<122>> >>],
     [id |-> 5, Names |-> <<>>]}

\* A variant of Set that leaves an alias already in the registry alone.
\* C12 tells it from Set.
SetIfAbsent(reg, m) ==
    [n \in DOMAIN reg \cup {m.Names[j] : j \in 1..Len(m.Names)} |->
        IF n \in DOMAIN reg THEN reg[n] ELSE m]

\* Set: "for _, n := range ti.Names { tis[n] = ti }".
Set(reg, m) ==
    [n \in DOMAIN reg \cup {m.Names[j] : j \in 1..Len(m.Names)} |->
        IF \E j \in 1..Len(m.Names) : m.Names[j] = n THEN m ELSE reg[n]]

\* Find: tis[name], nil for a key the map does not hold.
Find(reg, name) == IF name \in DOMAIN reg THEN reg[name] ELSE Nil

\* NewTerminfos: a new map and a Set of every model of the list, in order.
RECURSIVE SetAll(_, _)
SetAll(reg, list) ==
    IF list = <<>> THEN reg ELSE SetAll(Set(reg, Head(list)), Tail(list))

NewTerminfos(list) == SetAll(EmptyMap, list)

\* The registry is made from a list of models.
NewRegistry(list) ==
    /\ history = <<>>
    /\ tim = EmptyMap
    /\ list # <<>>
    /\ tim' = NewTerminfos(list)
    /\ history' = list
    /\ UNCHANGED <<pvars, dvars>>

\* A call of Set on the registry.
SetModel(m) ==
    /\ Len(history) < MaxSets
    /\ tim' = Set(tim, m)
    /\ history' = Append(history, m)
    /\ UNCHANGED <<pvars, dvars>>

NextReg ==
    \/ \E list \in SeqsUpTo(Instances, 2) : NewRegistry(list)
    \/ \E m \in Instances : SetModel(m)

SpecReg == InitDecode /\ [][NextReg]_vars

\* The model of the most recent Set that lists the alias, Nil if none does.
MostRecent(sets, name) ==
    LET hits == {j \in 1..Len(sets) :
                    \E x \in 1..Len(sets[j].Names) : sets[j].Names[x] = name}
    IN  IF hits = {} THEN Nil
        ELSE sets[CHOOSE j \in hits : \A m \in hits : m <= j]

\* C12: after any sequence of Set calls, Find of an alias gives the model of
\* the most recent Set whose Names holds the alias, and nil for an alias that
\* no model of a Set lists.
C12_FindMostRecentSet ==
    \A n \in RegNames : Find(tim, n) = MostRecent(history, n)

\* After Set of model 1 ("x", "y") and then of model 2 ("y", "z"): "x" finds
\* model 1, "y" and "z" find model 2, and "w" finds nothing.
C12_Witness ==
    /\ Len(history) = 2
    /\ history[1].id = 1
    /\ history[2].id = 2
    /\ Find(tim, <<120>>).id = 1
    /\ Find(tim, <<121>>).id = 2
    /\ Find(tim, <<122>>).id = 2
    /\ Find(tim, <<119>>) = Nil

-----------------------------------------------------------------------------
(* The order of the uses of one entry.                                     *)

\* The batch as the resolve loop finds it when it comes to entry a: the
\* entries before a are resolved already, in place.
BatchAt(a) == [j \in 1..Len(tis) |-> IF j < a THEN tis[j] ELSE parsed[j]]

\* C13: for an entry A whose Uses starts with B and goes on with other
\* entries, a capability that A does not define and that B supplies, itself
\* or through its own uses, ends in A with a value defined by an entry reached
\* through B, the value that resolving the use of B alone gives; no later use
\* of A changes it.
C13_EarlierUseWins ==
    pc = "done" =>
        \A a \in 1..Len(tis) :
            (Len(parsed[a].Uses) >= 2 /\ findTerminfo(parsed, parsed[a].Uses[1]) # 0)
            => LET b == findTerminfo(parsed, parsed[a].Uses[1])
                   viaB == ReachFrom(parsed, {b})
                   onlyB == resolveList(BatchAt(a), parsed[a], <<parsed[a].Uses[1]>>, 1)
               IN  \A f \in CapFields :
                     \A k \in UNION {DOMAIN parsed[e][f] : e \in viaB} \ DOMAIN parsed[a][f] :
                        /\ k \in DOMAIN tis[a][f]
                        /\ tis[a][f][k] = onlyB[f][k]
                        /\ \E e \in viaB : /\ k \in DOMAIN parsed[e][f]
                                           /\ parsed[e][f][k] = tis[a][f][k]

\* "A, use=B, use=C," where B has cols#5 and el=b and C has cols#7 and el=c:
\* A ends with cols = 5 and el = "b".
C13_Witness ==
    /\ pc = "done"
    /\ \E a, b, c \in 1..Len(tis) :
          /\ Len(parsed[a].Uses) = 2
          /\ findTerminfo(parsed, parsed[a].Uses[1]) = b
          /\ findTerminfo(parsed, parsed[a].Uses[2]) = c
          /\ parsed[a].Nums = EmptyMap
          /\ parsed[b].Nums = (0 :> 5)
          /\ parsed[c].Nums = (0 :> 7)
          /\ tis[a].Nums = (0 :> 5)
          /\ tis[a].Strings = parsed[b].Strings
          /\ parsed[b].Strings # parsed[c].Strings

-----------------------------------------------------------------------------
(* Buffers that pass the header checks.                                    *)

\* C14: a buffer with the magic 0x11A whose declared total length is at most
\* its own length is decoded without error, and the model has a name
\* whenever lenNames > 0.
C14_DeclaredLengthFitsThenDecodes ==
    ( /\ dpc = "return"
      /\ Len(file) >= 2 * HeaderLen
      /\ HeaderOf(file)[0] = Magic
      /\ DeclaredLen(HeaderOf(file)) <= Len(file) )
    => /\ err = "nil"
       /\ HeaderOf(file)[1] > 0 => r.ti.Names # <<>>

\* C15: a file shorter than the 12 bytes of the header, of any size from 0
\* to 11, is refused with SmallFile, and no field of the header is read.
C15_ShortHeaderIsSmallFile ==
    (dpc = "return" /\ Len(file) < 2 * HeaderLen)
        => /\ err = "SmallFile"
           /\ r.h = ZeroHeader

-----------------------------------------------------------------------------
(* The absent value of numeric and string slots.                           *)

\* The word in numeric slot j of the file f.
NumSlot(f, j) == littleEndian(OffsAt(HeaderOf(f)) - 2 * HeaderOf(f)[3] + 2 * j, f)

\* C16: after a decode without error, the model has a numeric value at index
\* j exactly when numeric slot j of the file holds a word > -1, the value is
\* that word and is not negative, and the model has a string at index j
\* exactly when string slot j holds an offset > -1; a slot of -1 or -2 gives
\* no entry.
C16_NegativeSlotsAreAbsent ==
    (dpc = "return" /\ err = "nil")
        => LET h == HeaderOf(file)
           IN  /\ DOMAIN r.ti.NumericCaps =
                     {j \in 0..(h[3] - 1) : NumSlot(file, j) > -1}
               /\ \A j \in DOMAIN r.ti.NumericCaps :
                     /\ r.ti.NumericCaps[j] = NumSlot(file, j)
                     /\ r.ti.NumericCaps[j] >= 0
               /\ DOMAIN r.ti.StringCaps =
                     {j \in 0..(h[4] - 1) : OffsetOf(file, j) > -1}

\* A file with the numeric words -2, 0 and the string offsets -1, 0 has been
\* decoded: the model has the numeric 0 at index 1 and the string "A" at
\* index 1, and nothing at index 0.
C16_Witness ==
    /\ dpc = "return"
    /\ err = "nil"
    /\ HeaderOf(file)[3] = 2
    /\ HeaderOf(file)[4] = 2
    /\ NumSlot(file, 0) = -2
    /\ NumSlot(file, 1) = 0
    /\ OffsetOf(file, 0) = -1
    /\ OffsetOf(file, 1) = 0
    /\ r.ti.NumericCaps = (1 :> 0)
    /\ r.ti.StringCaps = (1 :> <<65>>)

-----------------------------------------------------------------------------
(* The character loop on arbitrary text: after a header line, the text is  *)
(* any sequence of header lines and of continuation lines, each a tab and  *)
(* one character or a whole token. The state of the loop outlives a line,  *)
(* so the lines of one character spell every sequence of characters.       *)

MaxLexLines == 6

\* "a", ",", "=", "#", "\" and "1".
LexAlphabet == {97, 44, 61, 35, 92, 49}

\* "\ta,", "\ta#1," and "\ta=\,1,"
LexTokens ==
    {<<9, 97, 44>>, <<9, 97, 35, 49, 44>>, <<9, 97, 61, 92, 44, 49, 44>>}

LexLines == {<<9, c>> : c \in LexAlphabet} \cup LexTokens

NextLex ==
    \/ /\ ln < MaxLexLines
       /\ \E line \in {HdrA, HdrB} : HeaderLine(line)
    \/ /\ ln < MaxLexLines
       /\ ln > 0
       /\ pc = "lines"
       /\ \E line \in LexLines : BeginLine(line)
    \/ Char
    \/ EndLine
    \/ EndOfInput
    \/ ResolveEntry
    \/ Return

SpecLex == InitUse /\ [][NextLex]_vars

\* The iteration of the character loop about to run completes a capability:
\* it is one of the three that call addCap.
CompletesCap ==
    /\ pc = "chars"
    /\ i < Len(s)
    /\ s[i + 1] = Ch.comma
    /\ \/ esc = GROUND /\ capName = <<>>
       \/ esc = INT
       \/ esc = NONE

\* C17: whenever the machine is in GROUND the pending name is empty, so the
\* "," branch of GROUND is never taken with a pending name; and the iteration
\* that completes a capability, bool, num or str, leaves the machine in
\* GROUND with an empty accumulator and an empty pending name.
C17_GroundHasNoPendingName ==
    /\ [](esc = GROUND => capName = <<>>)
    /\ []~(/\ pc = "chars" /\ i < Len(s)
           /\ esc = GROUND /\ s[i + 1] = Ch.comma /\ capName # <<>>)
    /\ [][CompletesCap => (esc' = GROUND /\ buf' = <<>> /\ capName' = <<>>)]_vars

\* The "," that ends the numeric "a#1" is about to be read: the pending name
\* is "a" and the accumulator holds "1".
C17_Witness ==
    /\ CompletesCap
    /\ esc = INT
    /\ capName = <<97>>
    /\ buf = <<49>>
    /\ Len(tis) = 1

-----------------------------------------------------------------------------
(* Octal escapes: the text is a header line and lines "\tel=\ooo," with    *)
(* every three octal digits.                                               *)

MaxOctLines == 2

OctDigits == 48..55

\* "\tel=\d1d2d3,"
OctLine(d1, d2, d3) == <<9, 101, 108, 61, 92, d1, d2, d3, 44>>

OctLines == {OctLine(d1, d2, d3) : d1 \in OctDigits, d2 \in OctDigits, d3 \in OctDigits}

NextOct ==
    \/ /\ ln < MaxOctLines
       /\ HeaderLine(HdrA)
    \/ /\ ln < MaxOctLines
       /\ pc = "lines"
       /\ \E line \in OctLines : BeginLine(line)
    \/ Char
    \/ EndLine
    \/ EndOfInput
    \/ ResolveEntry
    \/ Return

SpecOct == InitUse /\ [][NextOct]_vars

\* The iteration about to run is in ESC at an octal digit followed by two
\* more octal digits.
AtOctal ==
    /\ pc = "chars"
    /\ i + 2 < Len(s)
    /\ esc = ESC
    /\ IsOctal(s[i + 1]) /\ IsOctal(s[i + 2]) /\ IsOctal(s[i + 3])

\* C18 as stated: in ESC at three octal digits d1 d2 d3, the iteration
\* appends one byte of value 64*d1 + 8*d2 + d3, consumes the three digits
\* and leaves the machine in NONE.
C18_OctalValue ==
    [][AtOctal =>
          /\ buf' = Append(buf, (s[i + 1] - 48) * 64 + (s[i + 2] - 48) * 8 + (s[i + 3] - 48))
          /\ i' = i + 3
          /\ esc' = NONE]_vars

\* C18 amended: ... appends one byte of value 64*d1 + 8*d2 + d3 reduced
\* modulo 256 (the value itself for d1 <= 3), consumes the three digits and
\* leaves the machine in NONE.
C18_OctalValueMod256 ==
    [][AtOctal =>
          /\ buf' = Append(buf, ((s[i + 1] - 48) * 64 + (s[i + 2] - 48) * 8 + (s[i + 3] - 48)) % 256)
          /\ i' = i + 3
          /\ esc' = NONE]_vars

\* The escape of "el=\777," has been read: the accumulator holds the one
\* byte 255, the three digits are consumed and the machine is in NONE.
C18_Witness ==
    /\ pc = "chars"
    /\ s = <<101, 108, 61, 92, 55, 55, 55, 44>>
    /\ i = 7
    /\ buf = <<255>>
    /\ esc = NONE

-----------------------------------------------------------------------------
(* Two entries, each a header line and one continuation line of a few      *)
(* characters, with or without a final comma.                              *)

MaxIsoLen == 3

IsoLines == {<<9>> \o w : w \in SeqsUpTo(LexAlphabet, MaxIsoLen) \ {<<>>}}

InitIso ==
    /\ InitParse
    /\ InitIdle
    /\ tok = NoTok
    /\ \E l1 \in IsoLines : \E l2 \in IsoLines : input = <<HdrA, l1, HdrB, l2>>

NextIso ==
    \/ /\ ln < Len(input)
       /\ \/ HeaderLine(input[ln + 1])
          \/ ScanLine(input[ln + 1])
    \/ /\ ln = Len(input)
       /\ EndOfInput
    \/ ResolveEntry
    \/ Return

SpecIso == InitIso /\ [][NextIso]_vars

\* The locals of Parse as they are at its start, with a new entry of the
\* names of the header line.
FreshLocals(header) ==
    [ti |-> NewTerminfo(Split(Split(header, Ch.comma)[1], Ch.bar)),
     capName |-> <<>>, esc |-> GROUND, buf |-> <<>>,
     extBoolIdx |-> 0, extNumIdx |-> 0, extStringIdx |-> 0,
     extBoolNameCaps |-> EmptyMap, extNumNameCaps |-> EmptyMap,
     extStringNameCaps |-> EmptyMap, panic |-> FALSE]

\* The entry that a header line and a continuation line give on their own.
OwnEntry(header, line) == RunLine(FreshLocals(header), TrimSpace(line), 0).ti

\* The capabilities of an entry, the extended ones by name.
Caps(e) ==
    [Names |-> e.Names, Bools |-> e.Bools, Nums |-> e.Nums, Strings |-> e.Strings,
     Uses |-> e.Uses,
     ExtBools |-> {<<e.ExtBoolNames[k], e.ExtBools[k]>> : k \in DOMAIN e.ExtBools},
     ExtNums |-> {<<e.ExtNumNames[k], e.ExtNums[k]>> : k \in DOMAIN e.ExtNums},
     ExtStrings |-> {<<e.ExtStringNames[k], e.ExtStrings[k]>> : k \in DOMAIN e.ExtStrings}]

\* C19: every capability of an entry comes from the characters of its own
\* continuation lines only: each entry of the result holds the capabilities
\* that its header and its continuation line give on their own, whatever
\* unfinished token the entry before it ends with.
C19_EntriesIsolated ==
    pc = "done" =>
        /\ Len(tis) = 2
        /\ \A k \in 1..2 : Caps(tis[k]) = Caps(OwnEntry(input[2 * k - 1], input[2 * k]))

-----------------------------------------------------------------------------
(* Extended capabilities through use resolution: the text is any sequence  *)
(* of these lines.                                                         *)

MaxPairLines == 6

\* "\tza=d, ya#3,": the names of LnExtA with other values, in another order.
LnExtA2 == <<9, 122, 97, 61, 100, 44, 32, 121, 97, 35, 51, 44>>

PairLines == {HdrA, HdrB, HdrC, LnExtA, LnExtB, LnExtA2, LnUseB, LnUseC}

NextPair ==
    \/ \E line \in PairLines :
          /\ ln < MaxPairLines
          /\ \/ HeaderLine(line)
             \/ ScanLine(line)
    \/ EndOfInput
    \/ ResolveEntry
    \/ Return

SpecPair == InitUse /\ [][NextPair]_vars

\* The name table and the value map of each kind of extended capability.
ExtKinds ==
    {<<"ExtBoolNames", "ExtBools">>, <<"ExtNumNames", "ExtNums">>,
     <<"ExtStringNames", "ExtStrings">>}

\* C20: after Parse, use resolution included, in every entry and for each
\* kind the indices of the extended name table are those of the extended
\* value map, and the name and value an entry holds at an index it did not
\* define itself are the name and value that one entry reached through its
\* uses defined at that index.
C20_ExtNamesPairedWithValues ==
    pc = "done" =>
        \A a \in 1..Len(tis) : \A kd \in ExtKinds :
            /\ DOMAIN tis[a][kd[1]] = DOMAIN tis[a][kd[2]]
            /\ \A k \in DOMAIN parsed[a][kd[2]] :
                  /\ tis[a][kd[1]][k] = parsed[a][kd[1]][k]
                  /\ tis[a][kd[2]][k] = parsed[a][kd[2]][k]
            /\ \A k \in DOMAIN tis[a][kd[2]] \ DOMAIN parsed[a][kd[2]] :
                  \E e \in ReachFrom(parsed, UsedBy(parsed, a)) :
                      /\ k \in DOMAIN parsed[e][kd[2]]
                      /\ parsed[e][kd[1]][k] = tis[a][kd[1]][k]
                      /\ parsed[e][kd[2]][k] = tis[a][kd[2]][k]

\* An entry with "xb, yb#2, zb=c," that uses an entry with "za=d, ya#3,"
\* has taken ya = 3 and za = "d" under those names, next to its own.
C20_Witness ==
    /\ pc = "done"
    /\ \E a \in 1..Len(tis) : \E b \in UsedBy(parsed, a) :
          /\ Cardinality(DOMAIN parsed[a].ExtNums) = 1
          /\ Cardinality(DOMAIN parsed[b].ExtNums) = 1
          /\ \E k \in DOMAIN parsed[b].ExtNums \ DOMAIN parsed[a].ExtNums :
                /\ tis[a].ExtNumNames[k] = <<121, 97>>
                /\ tis[a].ExtNums[k] = 3
          /\ \E k \in DOMAIN parsed[b].ExtStrings \ DOMAIN parsed[a].ExtStrings :
                /\ tis[a].ExtStringNames[k] = <<122, 97>>
                /\ tis[a].ExtStrings[k] = <<100>>
          /\ \E k \in DOMAIN parsed[a].ExtNums :
                /\ tis[a].ExtNumNames[k] = <<121, 98>>
                /\ tis[a].ExtNums[k] = 2

-----------------------------------------------------------------------------
(* Reference graphs: the text is any sequence of header lines and use      *)
(* lines, so that every graph over three entries occurs, with self         *)
(* references, cycles of two and three entries and unknown names.          *)

MaxCycLines == 6

\* "\tuse=A,"
LnUseA == <<9, 117, 115, 101, 61, 65, 44>>

CycLines == {HdrA, HdrB, HdrC, LnUseA, LnUseB, LnUseC}

NextCyc ==
    \/ \E line \in CycLines :
          /\ ln < MaxCycLines
          /\ \/ HeaderLine(line)
             \/ ScanLine(line)
    \/ EndOfInput
    \/ ResolveEntry
    \/ Return

SpecCyc == InitUse /\ [][NextCyc]_vars

-----------------------------------------------------------------------------
(* Entries with several uses: the text is any sequence of these lines.     *)

MaxOrdLines == 6

\* "\tuse=B, use=C,"
LnUseBC == <<9, 117, 115, 101, 61, 66, 44, 32, 117, 115, 101, 61, 67, 44>>

OrdLines == {HdrA, HdrB, HdrC, LnCaps5, LnCaps7, LnUseBC, LnUseB, LnUseC}

NextOrd ==
    \/ \E line \in OrdLines :
          /\ ln < MaxOrdLines
          /\ \/ HeaderLine(line)
             \/ ScanLine(line)
    \/ EndOfInput
    \/ ResolveEntry
    \/ Return

SpecOrd == InitUse /\ [][NextOrd]_vars

====
